---- MODULE Spec2Model ----
(***************************************************************************)
(* Session / conversation lifecycle of reflex_chat:                        *)
(*   states/chat_state.py   ChatState (sessions, current pointer,          *)
(*                          is_processing, the start_chat driver task and  *)
(*                          its get_user_input callback)                   *)
(*   utils/token_manager.py TokenManager (cancellation tokens and          *)
(*                          termination conditions keyed by session id)    *)
(*                                                                         *)
(* Every event handler is one action (it runs under the state lock).  The  *)
(* background task start_chat is cut into steps at its suspension points   *)
(* (async with self, await).  The multi-agent library is an opaque         *)
(* collaborator: the stream may emit any item, fail, or end; the library   *)
(* honours a cancelled CancellationToken and a set ExternalTermination.    *)
(* View-only fields (show_modal, scroll_flag, sidebar_open) are left out.  *)
(***************************************************************************)
EXTENDS Integers, Sequences, FiniteSets, TLC

\* ---------------------------------------------------------------- bounds
MaxIds == 3     \* session ids uuid4 hands out in one behaviour
MaxRuns == 2    \* start_chat tasks spawned in one behaviour
MaxMsgs == 2    \* messages the sessions hold from submit_message and the stream
MaxCalls == 2   \* ConversationManager: wait_for_input calls, and texts given to
                \* set_pending_input, in one behaviour

NoId == 0                         \* current_chat_id = ""
Ids == 1..MaxIds
Runs == 1..MaxRuns
Texts == {"", " ", "a", "b"}      \* what the user can type
Titles == {"", "T"}               \* what the user can type as chat title
None == "<None>"                  \* Python None stored in a str field
NoRun == 0                        \* empty dict for team_state
NoInput == 0                      \* pending_input = None
ConvIds == 1..2                   \* conversation ids the callers pass
ConvObjs == 1..2                  \* the dicts register_conversation creates
Waiters == 1..MaxCalls            \* wait_for_input calls
CancelTokens == {1}               \* the token objects passed to set_team
Teams == {1}                      \* the team objects passed to set_team
Inputs == 1..MaxCalls             \* the texts passed to set_pending_input, each
                                  \* call's text told apart by its number

\* A behaviour explores one scenario: how many ids, runs and messages it may
\* use, which texts and titles are typed, and which of the session handlers
\* past create_chat the user invokes.  Init draws the scenario.
SessionHandlers == {"switch_chat", "delete_chat"}
SessionsScenario ==       \* several sessions, one run, no message
    [ids |-> MaxIds - 1, runs |-> 1, msgs |-> 0, texts |-> {"", "a"}, titles |-> {""},
     handlers |-> SessionHandlers]
CrossScenario ==          \* two sessions, one run, one message
    [ids |-> 2, runs |-> 1, msgs |-> 1, texts |-> {"", "a"}, titles |-> {""},
     handlers |-> SessionHandlers]
RunsScenario ==           \* one session, several runs started on it
    [ids |-> 1, runs |-> MaxRuns, msgs |-> 0, texts |-> {""}, titles |-> {""},
     handlers |-> SessionHandlers]
ReadersScenario ==        \* one session, two runs polling its mailbox
    [ids |-> 1, runs |-> 2, msgs |-> 1, texts |-> {"", "a"}, titles |-> {""},
     handlers |-> SessionHandlers]
MailboxScenario ==        \* one session, one run, several submits
    [ids |-> 1, runs |-> 1, msgs |-> MaxMsgs, texts |-> Texts, titles |-> {""},
     handlers |-> SessionHandlers]
TitlesScenario ==         \* sessions created, named, switched and deleted
    [ids |-> MaxIds - 1, runs |-> 0, msgs |-> 0, texts |-> {""}, titles |-> Titles,
     handlers |-> SessionHandlers]
NewChatScenario ==        \* a run on each of two sessions, the second created
                          \* while the first runs; one message
    [ids |-> 2, runs |-> 2, msgs |-> 1, texts |-> {"a"}, titles |-> {""},
     handlers |-> {}]
DeleteOtherScenario ==    \* a run started on the first of as many sessions as
                          \* there are ids; sessions are created and deleted
    [ids |-> MaxIds, runs |-> 1, msgs |-> 0, texts |-> {""}, titles |-> {""},
     handlers |-> {"delete_chat"}]
Scenarios ==
    {SessionsScenario, CrossScenario, RunsScenario, ReadersScenario, MailboxScenario,
     TitlesScenario, NewChatScenario, DeleteOtherScenario}

VARIABLES
    scenario,               \* the scenario of this behaviour (never changes)
    chat_sessions,          \* id -> ChatSession
    key_order,              \* insertion order of the chat_sessions dict
    current_chat_id,
    new_chat_name,
    is_processing,
    user_message,
    cancellation_tokens,    \* TokenManager._cancellation_tokens: id -> token object
    termination_conditions, \* TokenManager._termination_conditions: id -> object
    token_cancelled,        \* CancellationToken object -> cancel() was called
    termination_set,        \* ExternalTermination object -> set() was called
    tasks,                  \* start_chat task -> its position (pc), the session it
                            \* marked initialized (sid), the callback's local
                            \* message, how it ended (result), and (history) the
                            \* text typed when its submit was handled (topic)
    uuid_next,              \* next id uuid4 returns
    submits,                \* history: id -> texts submitted since the mailbox was cleared
    last_ops,               \* history: the calls the last handler or step made, in order
    conversations,          \* ConversationManager._conversations: id -> dict object
    conv_data,              \* dict object -> its pending_input and input_event
    waiters,                \* wait_for_input call -> its position (pc), its
                            \* conversation_id (cid), its conv_data (obj) and what it
                            \* returned (ret)
    inputs_next,            \* number of the next text given to set_pending_input
    cancelled_tokens,       \* cancel tokens given to set_team whose cancel() was called
    now,                    \* datetime.now(), in minutes
    conv_call,              \* history: the last ConversationManager method called
                            \* by a caller that keeps the result, and what it returned
    returned                \* history: the texts wait_for_input calls have returned

vars == <<scenario, chat_sessions, key_order, current_chat_id, new_chat_name, is_processing,
          user_message, cancellation_tokens, termination_conditions,
          token_cancelled, termination_set, tasks, uuid_next, submits,
          last_ops, conversations, conv_data, waiters, inputs_next,
          cancelled_tokens, now, conv_call, returned>>

convVars == <<conversations, conv_data, waiters, inputs_next, cancelled_tokens, now,
             conv_call, returned>>

stateVars == <<convVars, scenario, chat_sessions, key_order, current_chat_id, new_chat_name,
               is_processing, user_message>>
registryVars == <<cancellation_tokens, termination_conditions,
                  token_cancelled, termination_set>>

\* ------------------------------------------------------------- helpers
Truthy(s) == s # "" /\ s # None          \* Python truthiness of Optional[str]
Strip(s) == IF s = " " THEN "" ELSE s    \* str.strip() on Texts

Put(f, k, v) == [x \in DOMAIN f \cup {k} |-> IF x = k THEN v ELSE f[x]]
Del(f, k) == [x \in DOMAIN f \ {k} |-> f[x]]
SeqWithout(s, k) == SelectSeq(s, LAMBDA x : x # k)

Message(source, content) == [source |-> source, content |-> content]

ChatSession(id, name) ==
    [id |-> id, name |-> name, messages |-> <<>>, is_initialized |-> FALSE,
     submitted_message |-> "", initial_message |-> "", team_state |-> NoRun]

RECURSIVE SumLen(_, _)
SumLen(sessions, ids) ==
    IF ids = {} THEN 0
    ELSE LET k == CHOOSE x \in ids : TRUE
         IN Len(sessions[k].messages) + SumLen(sessions, ids \ {k})
\* Messages held by all sessions together.
MsgCount == SumLen(chat_sessions, DOMAIN chat_sessions)

\* The ids a caller passes: those uuid4 has handed out and one it has not (the
\* ids never handed out are all alike).
Passed == {id \in Ids : id <= uuid_next}

HasCurrent == current_chat_id \in DOMAIN chat_sessions
current_session == chat_sessions[current_chat_id]

Op(op, id, obj, ret) == [op |-> op, id |-> id, obj |-> obj, ret |-> ret]

\* ------------------------------------------------- computed vars
\* The value of a computed var is written as Python prints it; a var whose
\* evaluation raises has the name of the exception as value.
\* has_messages, line 84: `a and b` gives a when a is falsy.
has_messages ==
    IF ~HasCurrent THEN "None"
    ELSE IF Len(current_session.messages) > 0 THEN "True" ELSE "False"

\* can_send_message, line 93.  With is_processing set, the right operand of
\* `or` is evaluated and reads current_session.is_initialized.
allow_input ==
    IF ~is_processing THEN "True"
    ELSE IF ~HasCurrent THEN "AttributeError"
    ELSE "False"

\* can_send_message, line 94.
can_send_message ==
    IF allow_input = "AttributeError" THEN "AttributeError"
    ELSE IF has_messages # "True" THEN has_messages
    ELSE allow_input

\* ------------------------------------------------------- TokenManager
\* The registry as a value: the two dicts, the state of the handle objects
\* and the log of calls made on it.
Registry ==
    [ct |-> cancellation_tokens, tc |-> termination_conditions,
     tok |-> token_cancelled, trm |-> termination_set, log |-> <<>>]

\* Mutant: an entry already present is kept (dict.setdefault).
store_cancellation_token_first(tm, session_id, token) ==
    [tm EXCEPT !.ct = IF session_id \in DOMAIN @ THEN @ ELSE Put(@, session_id, token),
               !.log = Append(@, Op("store_cancellation_token", session_id, token, "None"))]

store_cancellation_token(tm, session_id, token) ==
    [tm EXCEPT !.ct = Put(@, session_id, token),
               !.log = Append(@, Op("store_cancellation_token", session_id, token, "None"))]

get_cancellation_token(tm, session_id) ==
    IF session_id \in DOMAIN tm.ct THEN tm.ct[session_id] ELSE NoRun

\* Mutant: del without the membership test, so an unknown id raises.
remove_cancellation_token_unchecked(tm, session_id) ==
    IF session_id \in DOMAIN tm.ct
    THEN [tm EXCEPT !.ct = Del(@, session_id),
                    !.log = Append(@, Op("remove_cancellation_token", session_id,
                                         NoRun, "None"))]
    ELSE [tm EXCEPT !.log = Append(@, Op("remove_cancellation_token", session_id,
                                         NoRun, "KeyError"))]

remove_cancellation_token(tm, session_id) ==
    [tm EXCEPT !.ct = IF session_id \in DOMAIN @ THEN Del(@, session_id) ELSE @,
               !.log = Append(@, Op("remove_cancellation_token", session_id, NoRun, "None"))]

\* Mutant: the dict is indexed without the check, so an unknown id raises.
cancel_session_unchecked(tm, session_id) ==
    IF session_id \in DOMAIN tm.ct
    THEN [tm EXCEPT !.tok[tm.ct[session_id]] = TRUE,
                    !.log = Append(@, Op("cancel_session", session_id,
                                         tm.ct[session_id], "True"))]
    ELSE [tm EXCEPT !.log = Append(@, Op("cancel_session", session_id, NoRun,
                                         "KeyError"))]

cancel_session(tm, session_id) ==
    LET token == get_cancellation_token(tm, session_id) IN
    IF token # NoRun
    THEN [tm EXCEPT !.tok[token] = TRUE,
                    !.log = Append(@, Op("cancel_session", session_id, token, "True"))]
    ELSE [tm EXCEPT !.log = Append(@, Op("cancel_session", session_id, NoRun, "False"))]

store_termination_condition(tm, session_id, termination) ==
    [tm EXCEPT !.tc = Put(@, session_id, termination),
               !.log = Append(@, Op("store_termination_condition", session_id,
                                    termination, "None"))]

get_termination_condition(tm, session_id) ==
    IF session_id \in DOMAIN tm.tc THEN tm.tc[session_id] ELSE NoRun

remove_termination_condition(tm, session_id) ==
    [tm EXCEPT !.tc = IF session_id \in DOMAIN @ THEN Del(@, session_id) ELSE @,
               !.log = Append(@, Op("remove_termination_condition", session_id, NoRun, "None"))]

terminate_session(tm, session_id) ==
    LET termination == get_termination_condition(tm, session_id) IN
    IF termination # NoRun
    THEN [tm EXCEPT !.trm[termination] = TRUE,
                    !.log = Append(@, Op("terminate_session", session_id, termination, "True"))]
    ELSE [tm EXCEPT !.log = Append(@, Op("terminate_session", session_id, NoRun, "False"))]

clear_all(tm) ==
    [tm EXCEPT !.ct = <<>>, !.tc = <<>>, !.log = Append(@, Op("clear_all", NoId, NoRun, "None"))]

\* The registry at the start of handler op(id): only the handler is in the log.
Call(op, id, ret) == Op(op, id, NoRun, ret)
Called(op, id) == [Registry EXCEPT !.log = <<Call(op, id, "done")>>]

\* Write a registry value back to the variables.
SetRegistry(tm) ==
    /\ cancellation_tokens' = tm.ct
    /\ termination_conditions' = tm.tc
    /\ token_cancelled' = tm.tok
    /\ termination_set' = tm.trm
    /\ last_ops' = tm.log

\* ---------------------------------------------------------------- Init
Init ==
    /\ scenario \in Scenarios
    /\ chat_sessions = (1 :> ChatSession(1, "New Chat"))
    /\ key_order = <<1>>
    /\ current_chat_id = 1
    /\ new_chat_name = ""
    /\ is_processing = FALSE
    /\ user_message = ""
    /\ cancellation_tokens = <<>>
    /\ termination_conditions = <<>>
    /\ token_cancelled = [r \in Runs |-> FALSE]
    /\ termination_set = [r \in Runs |-> FALSE]
    /\ tasks = [r \in Runs |-> [pc |-> "none", sid |-> NoId, message |-> None,
                                result |-> "none", topic |-> None]]
    /\ uuid_next = 2
    /\ submits = (1 :> <<>>)
    /\ last_ops = <<>>
    /\ conversations = <<>>
    /\ conv_data = <<>>
    /\ waiters = [w \in Waiters |-> [pc |-> "idle", cid |-> NoId, obj |-> NoId,
                                      ret |-> NoInput]]
    /\ inputs_next = 1
    /\ cancelled_tokens = {}
    /\ now = 0
    /\ conv_call = [op |-> "", id |-> NoId, ret |-> "", val |-> 0]
    /\ returned = {}

\* ------------------------------------------------- ChatState handlers
\* on_message_input / set_user_message
OnMessageInput(value) ==
    /\ value \in scenario.texts
    /\ user_message' = value
    /\ last_ops' = <<>>
    /\ UNCHANGED <<convVars, scenario, chat_sessions, key_order, current_chat_id, new_chat_name,
                   is_processing, registryVars, tasks, uuid_next, submits>>

SetChatTitle(title) ==
    /\ title \in scenario.titles
    /\ new_chat_name' = title
    /\ last_ops' = <<>>
    /\ UNCHANGED <<convVars, scenario, chat_sessions, key_order, current_chat_id, user_message,
                   is_processing, registryVars, tasks, uuid_next, submits>>

\* Mutant: the title is taken as typed, also when empty.
create_chat_name_raw(title) == title

\* create_chat, line 208: the name of the new session.
create_chat_name(title) == IF title # "" THEN title ELSE "Untitled"

CreateChat ==
    /\ uuid_next <= scenario.ids
    /\ LET session == ChatSession(uuid_next, create_chat_name(new_chat_name))
       IN /\ chat_sessions' = Put(chat_sessions, session.id, session)
          /\ key_order' = Append(key_order, session.id)
          /\ current_chat_id' = session.id
          /\ submits' = Put(submits, session.id, <<>>)
    /\ new_chat_name' = ""
    /\ uuid_next' = uuid_next + 1
    /\ last_ops' = <<>>
    /\ UNCHANGED <<convVars, scenario, is_processing, user_message, registryVars, tasks>>

\* delete_chat, lines 225-228: the existence check.
delete_chat_exists(sessions, chat_id) == chat_id \in DOMAIN sessions

\* Mutant: the cancellation token is not removed.
delete_chat_signals_keep_token(tm, chat_id) ==
    remove_termination_condition(
        cancel_session(terminate_session(tm, chat_id), chat_id), chat_id)

\* Mutant: the termination condition is not removed.
delete_chat_signals_keep_condition(tm, chat_id) ==
    remove_cancellation_token(
        cancel_session(terminate_session(tm, chat_id), chat_id), chat_id)

\* delete_chat, lines 230-239: the calls made on the token manager.
delete_chat_signals(tm, chat_id) ==
    remove_cancellation_token(
        remove_termination_condition(
            cancel_session(terminate_session(tm, chat_id), chat_id), chat_id), chat_id)

\* delete_chat, lines 246-253.  self.create_chat() builds a coroutine that is
\* never awaited, so no session is created and the pointer stays "".
delete_chat_current(order, cur, chat_id) ==
    IF cur = chat_id
    THEN IF order # <<>> THEN Head(order) ELSE NoId
    ELSE cur

DeleteChat(chat_id) ==
    /\ "delete_chat" \in scenario.handlers
    /\ IF ~delete_chat_exists(chat_sessions, chat_id)
       THEN /\ last_ops' = <<Call("delete_chat", chat_id, "rejected")>>
            /\ UNCHANGED <<stateVars, registryVars, tasks, uuid_next, submits>>
       ELSE /\ SetRegistry(delete_chat_signals(Called("delete_chat", chat_id), chat_id))
            /\ chat_sessions' = Del(chat_sessions, chat_id)
            /\ key_order' = SeqWithout(key_order, chat_id)
            /\ submits' = Del(submits, chat_id)
            /\ current_chat_id' =
                   delete_chat_current(SeqWithout(key_order, chat_id),
                                       current_chat_id, chat_id)
            /\ UNCHANGED <<convVars, scenario, new_chat_name, is_processing, user_message, tasks,
                           uuid_next>>

\* Mutant: no existence check.
switch_chat_exists_unchecked(sessions, chat_id) == TRUE

\* switch_chat, lines 284-287: the existence check.
switch_chat_exists(sessions, chat_id) == chat_id \in DOMAIN sessions

\* Mutant: the same-id check is missing.
switch_chat_same_unchecked(cur, chat_id) == FALSE

\* switch_chat, lines 289-291: nothing to do when the id is the current one.
switch_chat_same(cur, chat_id) == chat_id = cur

\* Mutant: the hard cancel is issued before the graceful termination.
switch_chat_signals_swapped(tm, has_current, cur, chat_id) ==
    LET t1 == IF has_current
              THEN terminate_session(cancel_session(tm, cur), cur)
              ELSE tm
    IN [t1 EXCEPT !.log = Append(@, Op("set_current", chat_id, NoRun, "None"))]

\* switch_chat, lines 293-302: signals to the run of the current session, then
\* the assignment of the pointer (logged as set_current).
switch_chat_signals(tm, has_current, cur, chat_id) ==
    LET t1 == IF has_current
              THEN cancel_session(terminate_session(tm, cur), cur)
              ELSE tm
    IN [t1 EXCEPT !.log = Append(@, Op("set_current", chat_id, NoRun, "None"))]

SwitchChat(chat_id) ==
    /\ "switch_chat" \in scenario.handlers
    /\ IF ~switch_chat_exists(chat_sessions, chat_id)
       THEN /\ last_ops' = <<Call("switch_chat", chat_id, "rejected")>>
            /\ UNCHANGED <<stateVars, registryVars, tasks, uuid_next, submits>>
       ELSE IF switch_chat_same(current_chat_id, chat_id)
       THEN /\ last_ops' = <<Call("switch_chat", chat_id, "same")>>
            /\ UNCHANGED <<stateVars, registryVars, tasks, uuid_next, submits>>
       ELSE /\ SetRegistry(switch_chat_signals(Called("switch_chat", chat_id),
                                               HasCurrent, current_chat_id, chat_id))
            /\ current_chat_id' = chat_id
            /\ UNCHANGED <<convVars, scenario, chat_sessions, key_order, new_chat_name, is_processing,
                           user_message, tasks, uuid_next, submits>>

\* Mutant: the message is inserted at the front of the list.
add_message_to_current_session_front(sessions, cur, message) ==
    IF cur \in DOMAIN sessions
    THEN [sessions EXCEPT ![cur].messages = <<message>> \o @]
    ELSE sessions

\* add_message_to_current_session
add_message_to_current_session(sessions, cur, message) ==
    IF cur \in DOMAIN sessions
    THEN [sessions EXCEPT ![cur].messages = Append(@, message)]
    ELSE sessions

\* Mutant: a pending text is kept, the new one is dropped.
submit_message_mailbox_keep(old, text) == IF Truthy(old) THEN old ELSE text

\* submit_message, line 436: the value the mailbox of the current session gets.
submit_message_mailbox(old, text) == text

\* submit_message, line 437.
submit_message_processing(old) == TRUE

SubmitMessage ==
    /\ MsgCount < scenario.msgs
    /\ chat_sessions' =
           add_message_to_current_session(
               [chat_sessions EXCEPT ![current_chat_id].submitted_message =
                    submit_message_mailbox(@, user_message)],
               current_chat_id, Message("user", user_message))
    /\ submits' = [submits EXCEPT ![current_chat_id] = Append(@, user_message)]
    /\ is_processing' = submit_message_processing(is_processing)
    /\ user_message' = ""
    /\ last_ops' = <<>>
    /\ UNCHANGED <<convVars, scenario, key_order, current_chat_id, new_chat_name, registryVars, tasks,
                   uuid_next>>

FreeRuns == {r \in 1..scenario.runs : tasks[r].pc = "none"}

\* handle_message_submit returns ChatState.start_chat: the framework spawns the
\* background task, which runs its first statement later.
SpawnStartChat ==
    /\ FreeRuns # {}
    /\ LET r == CHOOSE x \in FreeRuns : \A y \in FreeRuns : x <= y
       IN /\ tasks' = [tasks EXCEPT ![r].pc = "start", ![r].topic = user_message]
    /\ last_ops' = <<>>
    /\ UNCHANGED <<stateVars, registryVars, uuid_next, submits>>

HandleMessageSubmit ==
    IF ~HasCurrent \/ (Strip(user_message) = "" /\ current_session.is_initialized)
    THEN /\ last_ops' = <<>>
         /\ UNCHANGED <<stateVars, registryVars, tasks, uuid_next, submits>>
    ELSE IF ~current_session.is_initialized
         THEN SpawnStartChat
         ELSE SubmitMessage

\* ------------------------------------------- start_chat (background task)
RelayItems == {Message("assistant", "hi")}   \* stream items that are relayed
ErrorMessage == Message("system", "Failed to initialize chat")

\* The history field topic is kept until line 486 has been executed.
BeforeRequest == {"start", "get_team", "load_config", "load_state"}
Goto(r, pc) ==
    [tasks EXCEPT ![r].pc = pc,
                  ![r].topic = IF pc \in BeforeRequest THEN @ ELSE None]
GotoResult(r, pc, result) ==
    [tasks EXCEPT ![r].pc = pc, ![r].result = result,
                  ![r].topic = IF pc \in BeforeRequest THEN @ ELSE None]

\* Lines 471-478: the guard and the first async with self.
StartChatBegin(r) ==
    /\ tasks[r].pc = "start"
    /\ last_ops' = <<>>
    /\ IF ~HasCurrent
       THEN /\ tasks' = GotoResult(r, "done", "returned")
            /\ UNCHANGED <<stateVars, registryVars, uuid_next, submits>>
       ELSE /\ chat_sessions' = [chat_sessions EXCEPT
                                     ![current_chat_id].is_initialized = TRUE]
            /\ is_processing' = TRUE
            /\ tasks' = [tasks EXCEPT ![r].pc = "get_team", ![r].sid = current_chat_id]
            /\ UNCHANGED <<convVars, scenario, key_order, current_chat_id, new_chat_name, user_message,
                           registryVars, uuid_next, submits>>

\* get_team, lines 307-315: ExternalTermination() is object r of this run; it is
\* stored under the id of the session that is current now.
get_team_store(tm, cur, termination) ==
    store_termination_condition(tm, cur, termination)

GetTeamStore(r) ==
    /\ tasks[r].pc = "get_team"
    /\ IF ~HasCurrent
       THEN /\ tasks' = Goto(r, "except")          \* ValueError, line 309
            /\ last_ops' = <<>>
            /\ UNCHANGED <<stateVars, registryVars, uuid_next, submits>>
       ELSE /\ SetRegistry(get_team_store(Registry, current_chat_id, r))
            /\ tasks' = Goto(r, "load_config")
            /\ UNCHANGED <<stateVars, uuid_next, submits>>

\* start_chat, lines 486-497, reached when get_team has returned: the cancellation
\* token is object r, stored under the id of the session that is current now.
start_chat_store(tm, cur, token) ==
    store_cancellation_token(tm, cur, token)

\* start_chat, line 486.
initial_content(text) ==
    IF Strip(text) # "" THEN Strip(text) ELSE "Let's start a conversation"

StartChatRunStream(r) ==
    IF ~HasCurrent
    THEN /\ tasks' = Goto(r, "except")             \* AttributeError, line 488
         /\ last_ops' = <<>>
         /\ UNCHANGED <<stateVars, registryVars, uuid_next, submits>>
    ELSE /\ chat_sessions' = [chat_sessions EXCEPT
                 ![current_chat_id].initial_message = initial_content(user_message)]
         /\ SetRegistry(start_chat_store(Registry, current_chat_id, r))
         /\ tasks' = Goto(r, "streaming")
         /\ UNCHANGED <<convVars, scenario, key_order, current_chat_id, new_chat_name, is_processing,
                        user_message, uuid_next, submits>>

\* get_team, lines 370-395: the model config is read and the team built; either
\* may raise.  A non-empty team_state is loaded with one more await.
GetTeamLoad(r) ==
    /\ tasks[r].pc = "load_config"
    /\ \/ /\ tasks' = Goto(r, "except")
          /\ last_ops' = <<>>
          /\ UNCHANGED <<stateVars, registryVars, uuid_next, submits>>
       \/ IF HasCurrent /\ current_session.team_state # NoRun
          THEN /\ tasks' = Goto(r, "load_state")
               /\ last_ops' = <<>>
               /\ UNCHANGED <<stateVars, registryVars, uuid_next, submits>>
          ELSE StartChatRunStream(r)

GetTeamLoadState(r) ==
    /\ tasks[r].pc = "load_state"
    /\ \/ /\ tasks' = Goto(r, "except")
          /\ last_ops' = <<>>
          /\ UNCHANGED <<stateVars, registryVars, uuid_next, submits>>
       \/ StartChatRunStream(r)

\* Lines 499-519, one item of the stream.
\* Any other item: one Message appended to the current session.
StreamRelay(r) ==
    /\ tasks[r].pc = "streaming"
    /\ MsgCount < scenario.msgs
    /\ \E item \in RelayItems :
           chat_sessions' = add_message_to_current_session(
                                chat_sessions, current_chat_id,
                                Message(item.source, item.content))
    /\ last_ops' = <<>>
    /\ UNCHANGED <<convVars, scenario, key_order, current_chat_id, new_chat_name, is_processing,
                   user_message, registryVars, tasks, uuid_next, submits>>

\* UserInputRequestedEvent: the library then calls get_user_input.  A team whose
\* termination condition is set stops instead of giving the user the turn.
StreamInputRequested(r) ==
    /\ tasks[r].pc = "streaming"
    /\ ~termination_set[r]
    /\ is_processing' = FALSE
    /\ tasks' = Goto(r, "awaiting")
    /\ last_ops' = <<>>
    /\ UNCHANGED <<convVars, scenario, chat_sessions, key_order, current_chat_id, new_chat_name,
                   user_message, registryVars, uuid_next, submits>>

\* TaskResult is skipped; it is the last item, so the loop ends and
\* team.save_state() is awaited.  The library ends the stream when it pleases,
\* and has to once the termination condition of this run is set.
StreamTaskResult(r) ==
    /\ tasks[r].pc = "streaming"
    /\ tasks' = Goto(r, "save_state")
    /\ last_ops' = <<>>
    /\ UNCHANGED <<stateVars, registryVars, uuid_next, submits>>

\* The stream raises (provider or network error).
StreamError(r) ==
    /\ tasks[r].pc = "streaming"
    /\ tasks' = Goto(r, "except")
    /\ last_ops' = <<>>
    /\ UNCHANGED <<stateVars, registryVars, uuid_next, submits>>

InStream(r) == tasks[r].pc \in {"streaming", "awaiting", "clear_mailbox", "set_processing"}

\* The token passed to run_stream was cancelled: CancelledError unwinds the
\* stream; except Exception does not catch it, finally runs.
StreamCancelled(r) ==
    /\ InStream(r)
    /\ token_cancelled[r]
    /\ tasks' = GotoResult(r, "finally", "cancelled")
    /\ last_ops' = <<>>
    /\ UNCHANGED <<stateVars, registryVars, uuid_next, submits>>

\* ------------------------------------ get_user_input (the input callback)
\* Lines 335-358, one turn of the poll loop up to its first suspension.
InputPoll(r) ==
    /\ tasks[r].pc = "awaiting"
    /\ last_ops' = <<>>
    /\ IF HasCurrent /\ Truthy(current_session.submitted_message)
       THEN \* lines 340-342: read, then wait for the state lock
            /\ tasks' = [tasks EXCEPT ![r].pc = "clear_mailbox",
                                      ![r].message = current_session.submitted_message]
            /\ UNCHANGED <<stateVars, registryVars, uuid_next, submits>>
       ELSE IF ~HasCurrent
       THEN \* line 353 raises AttributeError, line 359 swallows it, the callback
            \* returns None and the library fails the run
            /\ tasks' = [tasks EXCEPT ![r].pc = "except", ![r].message = None]
            /\ UNCHANGED <<stateVars, registryVars, uuid_next, submits>>
       ELSE LET current_termination ==
                    get_termination_condition(Registry, current_chat_id)
            IN IF current_termination # NoRun /\ termination_set[current_termination]
               THEN \* line 356: asyncio.CancelledError
                    /\ tasks' = [tasks EXCEPT ![r].pc = "finally",
                                              ![r].result = "cancelled",
                                              ![r].message = None]
                    /\ UNCHANGED <<stateVars, registryVars, uuid_next, submits>>
               ELSE \* line 358: sleep and poll again
                    /\ tasks' = [tasks EXCEPT ![r].message = None]
                    /\ UNCHANGED <<stateVars, registryVars, uuid_next, submits>>

\* Lines 342-343.
InputClear(r) ==
    /\ tasks[r].pc = "clear_mailbox"
    /\ last_ops' = <<>>
    /\ IF ~HasCurrent
       THEN /\ tasks' = Goto(r, "except")
            /\ UNCHANGED <<stateVars, registryVars, uuid_next, submits>>
       ELSE /\ chat_sessions' = [chat_sessions EXCEPT
                                     ![current_chat_id].submitted_message = None]
            /\ submits' = [submits EXCEPT ![current_chat_id] = <<>>]
            /\ tasks' = Goto(r, "set_processing")
            /\ UNCHANGED <<convVars, scenario, key_order, current_chat_id, new_chat_name, is_processing,
                           user_message, registryVars, uuid_next>>

\* Mutant: the callback returns the text without touching the flag.
InputReturnKeepsFlag(r) ==
    /\ tasks[r].pc = "set_processing"
    /\ tasks' = Goto(r, "streaming")
    /\ last_ops' = <<>>
    /\ UNCHANGED <<stateVars, registryVars, uuid_next, submits>>

\* Lines 345-349: the text read goes to the library.
InputReturn(r) ==
    /\ tasks[r].pc = "set_processing"
    /\ is_processing' = TRUE
    /\ tasks' = Goto(r, "streaming")
    /\ last_ops' = <<>>
    /\ UNCHANGED <<convVars, scenario, chat_sessions, key_order, current_chat_id, new_chat_name,
                   user_message, registryVars, uuid_next, submits>>

\* ------------------------------------------------ start_chat, the ending
\* Lines 521-528.  save_state may raise.  The state saved by run r is the
\* value r.  termination.cancel(): ExternalTermination is the library's class;
\* whether it has a cancel method is the library's business, so the call
\* either returns or raises AttributeError.
SaveState(r) ==
    /\ tasks[r].pc = "save_state"
    /\ last_ops' = <<>>
    /\ \/ /\ tasks' = Goto(r, "except")
          /\ UNCHANGED <<stateVars, registryVars, uuid_next, submits>>
       \/ /\ chat_sessions' = IF HasCurrent
                              THEN [chat_sessions EXCEPT ![current_chat_id].team_state = r]
                              ELSE chat_sessions
          /\ \E raised \in BOOLEAN :
                 tasks' = Goto(r, IF raised THEN "except" ELSE "store_state")
          /\ UNCHANGED <<convVars, scenario, key_order, current_chat_id, new_chat_name, is_processing,
                         user_message, registryVars, uuid_next, submits>>

\* Lines 530-532.
StoreState(r) ==
    /\ tasks[r].pc = "store_state"
    /\ last_ops' = <<>>
    /\ IF ~HasCurrent
       THEN /\ tasks' = Goto(r, "except")
            /\ UNCHANGED <<stateVars, registryVars, uuid_next, submits>>
       ELSE /\ chat_sessions' = [chat_sessions EXCEPT ![current_chat_id].team_state = r]
            /\ tasks' = GotoResult(r, "finally", "completed")
            /\ UNCHANGED <<convVars, scenario, key_order, current_chat_id, new_chat_name, is_processing,
                           user_message, registryVars, uuid_next, submits>>

\* Lines 534-540.
Except(r) ==
    /\ tasks[r].pc = "except"
    /\ chat_sessions' = add_message_to_current_session(chat_sessions, current_chat_id,
                                                       ErrorMessage)
    /\ is_processing' = FALSE
    /\ tasks' = GotoResult(r, "finally", "failed")
    /\ last_ops' = <<>>
    /\ UNCHANGED <<convVars, scenario, key_order, current_chat_id, new_chat_name, user_message,
                   registryVars, uuid_next, submits>>

\* Mutant: the flag is left as the unwinding run found it.
start_chat_finally_keep(tm, processing) == [tm |-> tm, is_processing |-> processing]

\* Lines 542-545: what start_chat does to the registry and the flag when it ends.
start_chat_finally(tm, processing) == [tm |-> tm, is_processing |-> FALSE]

Finally(r) ==
    /\ tasks[r].pc = "finally"
    /\ LET end == start_chat_finally(Registry, is_processing)
       IN /\ is_processing' = end.is_processing
          /\ SetRegistry(end.tm)
    /\ tasks' = Goto(r, "done")
    /\ UNCHANGED <<convVars, scenario, chat_sessions, key_order, current_chat_id, new_chat_name,
                   user_message, uuid_next, submits>>

\* ---------------------------------------------------------------- Next
TaskStep(r) ==
    \/ StartChatBegin(r)
    \/ GetTeamStore(r)
    \/ GetTeamLoad(r)
    \/ GetTeamLoadState(r)
    \/ StreamRelay(r)
    \/ StreamInputRequested(r)
    \/ StreamTaskResult(r)
    \/ StreamError(r)
    \/ StreamCancelled(r)
    \/ InputPoll(r)
    \/ InputClear(r)
    \/ InputReturn(r)
    \/ SaveState(r)
    \/ StoreState(r)
    \/ Except(r)
    \/ Finally(r)

Next ==
    \/ \E value \in Texts : OnMessageInput(value)
    \/ \E title \in Titles : SetChatTitle(title)
    \/ CreateChat
    \/ \E chat_id \in Passed : DeleteChat(chat_id)
    \/ \E chat_id \in Passed : SwitchChat(chat_id)
    \/ HandleMessageSubmit
    \/ \E r \in Runs : TaskStep(r)

Spec == Init /\ [][Next]_vars

\* ------------------------------------------------------------ fairness
\* What the asyncio scheduler and the library guarantee: a task that can take
\* its next step takes it; the stream yields its next item or ends; a cancelled
\* token unwinds the stream; a set termination condition ends it.  Nothing
\* obliges the user to act.
DriverStep(r) ==
    \/ StartChatBegin(r)
    \/ GetTeamStore(r)
    \/ GetTeamLoad(r)
    \/ GetTeamLoadState(r)
    \/ InputPoll(r)
    \/ InputClear(r)
    \/ InputReturn(r)
    \/ SaveState(r)
    \/ StoreState(r)
    \/ Except(r)
    \/ Finally(r)

StreamStep(r) ==
    \/ StreamRelay(r)
    \/ StreamInputRequested(r)
    \/ StreamTaskResult(r)
    \/ StreamError(r)

Fairness ==
    \A r \in Runs :
        /\ WF_vars(DriverStep(r))
        /\ WF_vars(StreamStep(r))
        /\ WF_vars(StreamCancelled(r))
        /\ WF_vars(termination_set[r] /\ StreamTaskResult(r))

FairInit == Init /\ scenario \in {CrossScenario, RunsScenario}

FairSpec == FairInit /\ [][Next]_vars /\ Fairness

\* ------------------------------------------- TokenManager called directly
RegStoreToken(id, obj) ==
    /\ SetRegistry(store_cancellation_token(Registry, id, obj))
    /\ UNCHANGED <<stateVars, tasks, uuid_next, submits>>

RegStoreTermination(id, obj) ==
    /\ SetRegistry(store_termination_condition(Registry, id, obj))
    /\ UNCHANGED <<stateVars, tasks, uuid_next, submits>>

RegRemoveToken(id) ==
    /\ SetRegistry(remove_cancellation_token(Registry, id))
    /\ UNCHANGED <<stateVars, tasks, uuid_next, submits>>

RegRemoveTermination(id) ==
    /\ SetRegistry(remove_termination_condition(Registry, id))
    /\ UNCHANGED <<stateVars, tasks, uuid_next, submits>>

RegCancel(id) ==
    /\ SetRegistry(cancel_session(Registry, id))
    /\ UNCHANGED <<stateVars, tasks, uuid_next, submits>>

RegTerminate(id) ==
    /\ SetRegistry(terminate_session(Registry, id))
    /\ UNCHANGED <<stateVars, tasks, uuid_next, submits>>

RegClearAll ==
    /\ SetRegistry(clear_all(Registry))
    /\ UNCHANGED <<stateVars, tasks, uuid_next, submits>>

\* The ids passed to the TokenManager, which keeps no list of sessions.
RegIds == 1..(MaxIds - 1)

RegistryNext ==
    \/ \E id \in RegIds, obj \in 1..scenario.runs : RegStoreToken(id, obj)
    \/ \E id \in RegIds, obj \in 1..scenario.runs : RegStoreTermination(id, obj)
    \/ \E id \in RegIds : RegRemoveToken(id)
    \/ \E id \in RegIds : RegRemoveTermination(id)
    \/ \E id \in RegIds : RegCancel(id)
    \/ \E id \in RegIds : RegTerminate(id)
    \/ RegClearAll

\* Any session id may be passed; the handle objects are those of two runs.
RegistryInit == Init /\ scenario = ReadersScenario

RegistrySpec == RegistryInit /\ [][RegistryNext]_vars

\* ------------------------------------------------- ConversationManager
\* No block under self._lock contains an await, so the lock is never held
\* across a suspension: every method runs to its end in one step, except
\* wait_for_input, which suspends at line 111 only.
chatVars == <<scenario, chat_sessions, key_order, current_chat_id, new_chat_name,
              is_processing, user_message, registryVars, tasks, uuid_next, submits,
              last_ops>>

\* register_conversation, lines 45-52: a new dict with a new asyncio.Event.
ConvData ==
    [last_active |-> now, pending_input |-> NoInput, input_event |-> FALSE,
     team |-> NoRun, cancel_token |-> NoRun]

\* The caller drops the result of the call.
Unlogged == UNCHANGED <<now, conv_call>>

Registered(id) == id \in DOMAIN conversations

\* Mutant: setting the event resumes nobody.
WakeNobody(ws, obj) == ws

\* asyncio.Event.set(): the calls waiting on this event are resumed, also when
\* the event is cleared again before they run.
Wake(ws, obj) ==
    [w \in Waiters |-> IF ws[w].pc = "blocked" /\ ws[w].obj = obj
                       THEN [ws[w] EXCEPT !.pc = "woken"]
                       ELSE ws[w]]

RegisterConversation(id) ==
    /\ Len(conv_data) + 1 \in ConvObjs
    /\ conv_data' = Append(conv_data, ConvData)
    /\ conversations' = Put(conversations, id, Len(conv_data) + 1)
    /\ UNCHANGED <<chatVars, waiters, inputs_next, cancelled_tokens, returned>>

\* set_team, lines 54-60.
SetTeam(id, token) ==
    /\ Registered(id)
    /\ \E team \in Teams :
           conv_data' = [conv_data EXCEPT ![conversations[id]].team = team,
                                          ![conversations[id]].cancel_token = token,
                                          ![conversations[id]].last_active = now]
    /\ UNCHANGED <<chatVars, conversations, waiters, inputs_next, cancelled_tokens,
                   returned>>

\* set_pending_input, lines 81-83.
set_pending_input(data, obj, input_text) ==
    [data EXCEPT ![obj].pending_input = input_text, ![obj].last_active = now,
                 ![obj].input_event = TRUE]

SetPendingInput(id) ==
    /\ inputs_next <= MaxCalls
    /\ inputs_next' = inputs_next + 1
    /\ IF Registered(id)
       THEN /\ conv_data' = set_pending_input(conv_data, conversations[id], inputs_next)
            /\ waiters' = Wake(waiters, conversations[id])
       ELSE UNCHANGED <<conv_data, waiters>>
    /\ UNCHANGED <<chatVars, conversations, cancelled_tokens, returned>>

\* Mutant: the text is returned and left pending.
wait_for_input_take_keep(data, obj) == data

\* wait_for_input, lines 103-105 and 118-120: pending_input = None.
wait_for_input_take(data, obj) ==
    [data EXCEPT ![obj].pending_input = NoInput, ![obj].last_active = now]

Return(w, id, text) ==
    [waiters EXCEPT ![w] = [pc |-> "done", cid |-> id, obj |-> NoId, ret |-> text]]

\* wait_for_input, lines 89-111: up to the return or the wait on the event.
WaitBegin(w, id) ==
    /\ waiters[w].pc = "idle"
    /\ \A v \in Waiters : v < w => waiters[v].pc # "idle"    \* calls numbered in order
    /\ IF ~Registered(id)
       THEN /\ waiters' = Return(w, id, NoInput)
            /\ UNCHANGED <<conv_data, returned>>
       ELSE LET obj == conversations[id]
                cleared == [conv_data EXCEPT ![obj].input_event = FALSE]
                input_text == conv_data[obj].pending_input
            IN IF input_text # NoInput
               THEN /\ conv_data' = wait_for_input_take(cleared, obj)
                    /\ waiters' = Return(w, id, input_text)
                    /\ returned' = returned \cup {input_text}
               ELSE /\ conv_data' = cleared
                    /\ waiters' = [waiters EXCEPT ![w] = [pc |-> "blocked", cid |-> id,
                                                         obj |-> obj, ret |-> NoInput]]
                    /\ UNCHANGED returned
    /\ UNCHANGED <<chatVars, conversations, inputs_next, cancelled_tokens>>

\* wait_for_input, lines 113-122: the event was set; the entry now registered
\* under the id is read.
WaitResume(w) ==
    /\ waiters[w].pc = "woken"
    /\ LET id == waiters[w].cid
       IN IF ~Registered(id)
          THEN /\ waiters' = Return(w, id, NoInput)
               /\ UNCHANGED <<conv_data, returned>>
          ELSE LET obj == conversations[id]
                   input_text == conv_data[obj].pending_input
               IN /\ conv_data' = wait_for_input_take(conv_data, obj)
                  /\ waiters' = Return(w, id, input_text)
                  /\ returned' = returned \cup ({input_text} \ {NoInput})
    /\ UNCHANGED <<chatVars, conversations, inputs_next, cancelled_tokens>>

\* wait_for_input, lines 124-126: asyncio.TimeoutError.
WaitTimeout(w) ==
    /\ waiters[w].pc = "blocked"
    /\ waiters' = Return(w, waiters[w].cid, NoInput)
    /\ UNCHANGED <<chatVars, conversations, conv_data, inputs_next, cancelled_tokens,
                   returned>>

\* cancel_conversation, lines 130-139.
CancelConversation(id) ==
    /\ Registered(id)
    /\ LET obj == conversations[id]
       IN /\ cancelled_tokens' = cancelled_tokens \cup
                                     ({conv_data[obj].cancel_token} \ {NoRun})
          /\ conv_data' = [conv_data EXCEPT ![obj].input_event = TRUE,
                                            ![obj].last_active = now]
          /\ waiters' = Wake(waiters, obj)
    /\ UNCHANGED <<chatVars, conversations, inputs_next, returned>>

\* remove_conversation, lines 143-147.
RemoveConversation(id) ==
    /\ Registered(id)
    /\ conversations' = Del(conversations, id)
    /\ UNCHANGED <<chatVars, conv_data, waiters, inputs_next, cancelled_tokens, returned>>

ConvNext ==
    \/ \E id \in ConvIds : RegisterConversation(id) /\ Unlogged
    \/ \E id \in ConvIds, token \in CancelTokens : SetTeam(id, token) /\ Unlogged
    \/ \E id \in ConvIds : SetPendingInput(id) /\ Unlogged
    \/ \E w \in Waiters, id \in ConvIds : WaitBegin(w, id) /\ Unlogged
    \/ \E w \in Waiters : WaitResume(w) /\ Unlogged
    \/ \E w \in Waiters : WaitTimeout(w) /\ Unlogged
    \/ \E id \in ConvIds : CancelConversation(id) /\ Unlogged
    \/ \E id \in ConvIds : RemoveConversation(id) /\ Unlogged

ConvInit == Init /\ scenario = MailboxScenario

ConvSpec == ConvInit /\ [][ConvNext]_vars

(***************************************************************************)
(* ConversationManager called method by method, with the clock running     *)
(* and each result kept: conv_call holds the method, the id it was given,  *)
(* the kind of value it returned (ret) and, for an object or a number,     *)
(* the value itself (val).                                                 *)
(***************************************************************************)
MaxTime == 2                      \* minutes the clock advances
Times == 0..MaxTime
MaxAges == 0..MaxTime             \* max_age_minutes
Caller == 1                       \* the one coroutine calling wait_for_input

Returns(op, id, ret, val) ==
    /\ conv_call' = [op |-> op, id |-> id, ret |-> ret, val |-> val]
    /\ now' = now

Tick ==
    /\ now < MaxTime
    /\ now' = now + 1
    /\ UNCHANGED <<chatVars, conversations, conv_data, waiters, inputs_next,
                   cancelled_tokens, conv_call, returned>>

CallRegisterConversation(id) ==
    RegisterConversation(id) /\ Returns("register_conversation", id, "None", 0)

\* set_team returns None on both paths; an unregistered id changes nothing
CallSetTeam(id, token) ==
    /\ IF Registered(id)
       THEN SetTeam(id, token)
       ELSE UNCHANGED <<chatVars, conversations, conv_data, waiters, inputs_next,
                        cancelled_tokens, returned>>
    /\ Returns("set_team", id, "None", 0)

GetTeam(id) ==
    /\ IF Registered(id)
       THEN /\ conv_data' = [conv_data EXCEPT ![conversations[id]].last_active = now]
            /\ Returns("get_team", id,
                       IF conv_data[conversations[id]].team = NoRun THEN "None" ELSE "team",
                       conv_data[conversations[id]].team)
       ELSE /\ conv_data' = conv_data
            /\ Returns("get_team", id, "None", 0)
    /\ UNCHANGED <<chatVars, conversations, waiters, inputs_next, cancelled_tokens,
                   returned>>

GetCancelToken(id) ==
    /\ IF Registered(id)
       THEN Returns("get_cancel_token", id,
                    IF conv_data[conversations[id]].cancel_token = NoRun
                    THEN "None" ELSE "token",
                    conv_data[conversations[id]].cancel_token)
       ELSE Returns("get_cancel_token", id, "None", 0)
    /\ UNCHANGED <<chatVars, conversations, conv_data, waiters, inputs_next,
                   cancelled_tokens, returned>>

CallSetPendingInput(id) ==
    /\ SetPendingInput(id)
    /\ Returns("set_pending_input", id, IF Registered(id) THEN "True" ELSE "False", 0)

\* what the wait_for_input call of waiter w has returned after the step, if
\* it has returned
WaitReturns(w) ==
    Returns("wait_for_input", waiters'[w].cid,
            IF waiters'[w].pc # "done" THEN "waiting"
            ELSE IF waiters'[w].ret = NoInput THEN "None" ELSE "text",
            waiters'[w].ret)

CallWaitForInput(id) == WaitBegin(Caller, id) /\ WaitReturns(Caller)

CallWaitResume == WaitResume(Caller) /\ WaitReturns(Caller)

CallWaitTimeout == WaitTimeout(Caller) /\ WaitReturns(Caller)

CallCancelConversation(id) ==
    IF Registered(id)
    THEN CancelConversation(id) /\ Returns("cancel_conversation", id, "True", 0)
    ELSE /\ UNCHANGED <<chatVars, conversations, conv_data, waiters, inputs_next,
                        cancelled_tokens, returned>>
         /\ Returns("cancel_conversation", id, "False", 0)

\* remove_conversation without the membership test: pop(id, None), return True
RemoveUnchecked(id) ==
    /\ conversations' = Del(conversations, id)
    /\ Returns("remove_conversation", id, "True", 0)
    /\ UNCHANGED <<chatVars, conv_data, waiters, inputs_next, cancelled_tokens, returned>>

CallRemoveConversation(id) ==
    IF Registered(id)
    THEN RemoveConversation(id) /\ Returns("remove_conversation", id, "True", 0)
    ELSE /\ UNCHANGED <<chatVars, conversations, conv_data, waiters, inputs_next,
                        cancelled_tokens, returned>>
         /\ Returns("remove_conversation", id, "False", 0)

StaleOrAtCutoff(last_active, cutoff) == last_active <= cutoff

Stale(last_active, cutoff) == last_active < cutoff

\* the loop over list(self._conversations.keys()): the table, the cancelled
\* tokens and the count after the keys in conv_ids have been visited
RECURSIVE cleanup_loop(_, _, _, _, _)
cleanup_loop(conv_ids, cutoff, convs, cancelled, count) ==
    IF conv_ids = {}
    THEN [conversations |-> convs, cancelled |-> cancelled, count |-> count]
    ELSE LET conv_id == CHOOSE x \in conv_ids : \A y \in conv_ids : x <= y
             rest == conv_ids \ {conv_id}
             entry == conv_data[convs[conv_id]]
         IN IF Stale(entry.last_active, cutoff)
            THEN cleanup_loop(rest, cutoff, Del(convs, conv_id),
                              cancelled \cup ({entry.cancel_token} \ {NoRun}),
                              count + 1)
            ELSE cleanup_loop(rest, cutoff, convs, cancelled, count)

CleanupStaleConversations(max_age_minutes) ==
    LET cutoff == now - max_age_minutes
        done == cleanup_loop(DOMAIN conversations, cutoff, conversations,
                             cancelled_tokens, 0)
    IN /\ conversations' = done.conversations
       /\ cancelled_tokens' = done.cancelled
       /\ Returns("cleanup_stale_conversations", NoId, "int", done.count)
       /\ UNCHANGED <<chatVars, conv_data, waiters, inputs_next, returned>>

ManagerNext ==
    \/ \E id \in ConvIds : CallRegisterConversation(id)
    \/ \E id \in ConvIds, token \in CancelTokens : CallSetTeam(id, token)
    \/ \E id \in ConvIds : GetTeam(id)
    \/ \E id \in ConvIds : GetCancelToken(id)
    \/ \E id \in ConvIds : CallSetPendingInput(id)
    \/ \E id \in ConvIds : CallWaitForInput(id)
    \/ CallWaitResume
    \/ CallWaitTimeout
    \/ \E id \in ConvIds : CallCancelConversation(id)
    \/ \E id \in ConvIds : CallRemoveConversation(id)

ManagerInit == Init /\ scenario = MailboxScenario

ManagerSpec == ManagerInit /\ [][ManagerNext]_vars

\* The periodic cleanup (cleanup_loop of start_cleanup_task) among the calls
\* that create an entry, change its cancel token or touch its last_active.
CleanupNext ==
    \/ Tick
    \/ \E id \in ConvIds : CallRegisterConversation(id)
    \/ \E id \in ConvIds, token \in CancelTokens : CallSetTeam(id, token)
    \/ \E id \in ConvIds : GetTeam(id)
    \/ \E id \in ConvIds : CallCancelConversation(id)
    \/ \E id \in ConvIds : CallRemoveConversation(id)
    \/ \E max_age_minutes \in MaxAges : CleanupStaleConversations(max_age_minutes)

CleanupSpec == ManagerInit /\ [][CleanupNext]_vars

\* ============================================================== claims
Active(r) == tasks[r].pc \notin {"none", "done"}
\* The run has executed lines 476-478 and has not reached its ending.
Building(r) == tasks[r].pc \in {"get_team", "load_config", "load_state"}
Live(r) == Building(r) \/ InStream(r)
Entered(r) == tasks[r].pc \notin {"none", "start", "done"}
InLog(op, id) == \E i \in 1..Len(last_ops) : last_ops[i].op = op /\ last_ops[i].id = id
Handled(op, id, ret) == last_ops # <<>> /\ last_ops[1] = Call(op, id, ret)

\* C1: is_processing is false whenever no driver task is active (the run is
\* idle, completed, failed or cancelled).
C1_ProcessingNeedsActiveRun ==
    is_processing => \E r \in Runs : Active(r)

\* C2: current_chat_id always names a session of chat_sessions, also after the
\* current session was deleted.
C2_CurrentIsASession ==
    current_chat_id \in DOMAIN chat_sessions

\* C3: when switch_chat leaves a session on which a run is building, streaming
\* or awaiting input, that run eventually ends.
SwitchedAwayFrom(r) ==
    /\ Len(last_ops) >= 2
    /\ last_ops[1].op = "switch_chat" /\ last_ops[1].ret = "done"
    /\ last_ops[2].op = "terminate_session"
    /\ last_ops[2].id = tasks[r].sid
    /\ Live(r)
C3_SwitchedRunEnds ==
    \A r \in Runs : SwitchedAwayFrom(r) ~> (tasks[r].pc = "done")

\* C4: the mailbox holds at most one text, the one submitted last; the callback
\* reads that text and no earlier one.
MailboxIsLastSubmit ==
    \A id \in DOMAIN chat_sessions :
        LET mailbox == chat_sessions[id].submitted_message
        IN /\ mailbox \in Texts \cup {None}
           /\ Truthy(mailbox) =>
                  /\ submits[id] # <<>>
                  /\ mailbox = submits[id][Len(submits[id])]
CallbackReadsLastSubmit ==
    \A r \in Runs :
        (tasks[r].pc = "awaiting" /\ tasks'[r].pc = "clear_mailbox") =>
            /\ submits[current_chat_id] # <<>>
            /\ tasks'[r].message =
                   submits[current_chat_id][Len(submits[current_chat_id])]
C4_LastWriteWins ==
    [](MailboxIsLastSubmit) /\ [][CallbackReadsLastSubmit]_vars
C4_Witness ==
    \E id \in DOMAIN chat_sessions, r \in Runs :
        /\ Len(submits[id]) = 2
        /\ submits[id][1] # submits[id][2]
        /\ chat_sessions[id].submitted_message = submits[id][2]
        /\ tasks[r].pc = "clear_mailbox"
        /\ tasks[r].message = submits[id][2]

\* C5: at most one run is in start_chat for a session at any time.
C5_OneRunPerSession ==
    \A r1, r2 \in Runs :
        (r1 # r2 /\ Entered(r1) /\ Entered(r2)) => tasks[r1].sid # tasks[r2].sid

\* C6: once start_chat has finished, the registry holds neither the termination
\* condition nor the cancellation token of that run.
HeldBy(registry, obj) == \E id \in DOMAIN registry : registry[id] = obj
C6_FinishedRunReleased ==
    \A r \in Runs :
        tasks[r].pc = "done" =>
            /\ ~HeldBy(cancellation_tokens, r)
            /\ ~HeldBy(termination_conditions, r)

\* C7: delete_chat(id) on an existing session calls terminate_session(id) and
\* cancel_session(id), removes the session and leaves no registry entry under id.
C7_DeleteReleases ==
    \A id \in Ids :
        Handled("delete_chat", id, "done") =>
            /\ InLog("terminate_session", id)
            /\ InLog("cancel_session", id)
            /\ id \notin DOMAIN chat_sessions
            /\ id \notin DOMAIN cancellation_tokens
            /\ id \notin DOMAIN termination_conditions
C7_Witness ==
    \E id \in Ids, r \in Runs :
        /\ Handled("delete_chat", id, "done")
        /\ tasks[r].pc = "awaiting" /\ tasks[r].sid = id
        /\ last_ops[2] = Op("terminate_session", id, r, "True")
        /\ last_ops[3] = Op("cancel_session", id, r, "True")
        /\ token_cancelled[r] /\ termination_set[r]

\* C8: in switch_chat and delete_chat every cancel_session(id) comes after
\* terminate_session(id), and switch_chat assigns the pointer after both.
C8_TerminateThenCancel ==
    \A j \in 1..Len(last_ops) :
        /\ last_ops[j].op = "cancel_session" =>
               \E i \in 1..(j - 1) : /\ last_ops[i].op = "terminate_session"
                                     /\ last_ops[i].id = last_ops[j].id
        /\ last_ops[j].op = "terminate_session" =>
               \E k \in (j + 1)..Len(last_ops) : /\ last_ops[k].op = "cancel_session"
                                                 /\ last_ops[k].id = last_ops[j].id
        /\ last_ops[j].op = "set_current" =>
               \A i \in 1..Len(last_ops) :
                   last_ops[i].op \in {"terminate_session", "cancel_session"} => i < j
C8_Witness ==
    \E id \in Ids, old \in Ids, r \in Runs :
        /\ last_ops = << Call("switch_chat", id, "done"),
                         Op("terminate_session", old, r, "True"),
                         Op("cancel_session", old, r, "True"),
                         Call("set_current", id, "None") >>
        /\ current_chat_id = id
        /\ InStream(r)

\* C9: cancel_session(id) and terminate_session(id) without a handle under id
\* return False and change neither the maps nor any handle.
C9_Step ==
    \A id \in Ids :
        /\ (RegCancel(id) /\ id \notin DOMAIN cancellation_tokens) =>
               /\ UNCHANGED registryVars
               /\ last_ops' = <<Op("cancel_session", id, NoRun, "False")>>
        /\ (RegTerminate(id) /\ id \notin DOMAIN termination_conditions) =>
               /\ UNCHANGED registryVars
               /\ last_ops' = <<Op("terminate_session", id, NoRun, "False")>>
C9_NoHandleNoOp == [][C9_Step]_vars
C9_Witness ==
    \E id \in Ids, other \in Ids :
        /\ last_ops = <<Op("cancel_session", id, NoRun, "False")>>
        /\ id \notin DOMAIN cancellation_tokens
        /\ other \in DOMAIN cancellation_tokens
        /\ ~token_cancelled[cancellation_tokens[other]]
        /\ id \in DOMAIN termination_conditions

\* C10: switch_chat(id) and delete_chat(id) with an unknown id change nothing
\* and signal no run.
C10_Step ==
    \A id \in Ids :
        (id \notin DOMAIN chat_sessions /\ (SwitchChat(id) \/ DeleteChat(id))) =>
            /\ UNCHANGED <<stateVars, registryVars, tasks, uuid_next, submits>>
            /\ Len(last_ops') = 1
            /\ last_ops'[1].ret = "rejected"
C10_UnknownIdRejected == [][C10_Step]_vars
C10_Witness ==
    \E id \in Ids, r \in Runs :
        /\ Handled("switch_chat", id, "rejected")
        /\ id \notin DOMAIN chat_sessions
        /\ chat_sessions # <<>>
        /\ InStream(r) /\ is_processing
        /\ HeldBy(cancellation_tokens, r) /\ ~token_cancelled[r]

\* C11: switch_chat(id) with id the current session changes nothing and sends
\* the run of that session neither a termination nor a cancellation signal.
C11_Step ==
    \A id \in Ids :
        (id = current_chat_id /\ SwitchChat(id)) =>
            /\ UNCHANGED <<stateVars, registryVars, tasks, uuid_next, submits>>
            /\ last_ops' = <<Call("switch_chat", id, "same")>>
C11_SwitchToCurrentNoOp == [][C11_Step]_vars
C11_Witness ==
    \E id \in Ids, r \in Runs :
        /\ Handled("switch_chat", id, "same")
        /\ Len(last_ops) = 1
        /\ current_chat_id = id
        /\ InStream(r) /\ tasks[r].sid = id
        /\ id \in DOMAIN cancellation_tokens /\ cancellation_tokens[id] = r
        /\ id \in DOMAIN termination_conditions /\ termination_conditions[id] = r
        /\ ~token_cancelled[r] /\ ~termination_set[r]

\* C12: a submit on an uninitialized current session starts start_chat, which
\* marks the session initialized and opens with the text typed at the submit
\* (the default prompt when blank) without writing the mailbox; on an
\* initialized session a non-blank text goes to the mailbox of that session and
\* a blank text changes nothing.
Mailboxes(sessions) == [id \in DOMAIN sessions |-> sessions[id].submitted_message]
C12_Starts ==
    (HasCurrent /\ ~current_session.is_initialized /\ HandleMessageSubmit) =>
        /\ \E r \in Runs : tasks[r].pc = "none" /\ tasks'[r].pc = "start"
        /\ UNCHANGED <<stateVars, registryVars>>
C12_Opens ==
    \A r \in Runs :
        (tasks[r].pc \in BeforeRequest /\ tasks'[r].pc = "streaming") =>
            /\ tasks[r].sid \in DOMAIN chat_sessions'
            /\ chat_sessions'[tasks[r].sid].is_initialized
            /\ chat_sessions'[tasks[r].sid].initial_message =
                   initial_content(tasks[r].topic)
            /\ Mailboxes(chat_sessions') = Mailboxes(chat_sessions)
C12_Submits ==
    (HasCurrent /\ current_session.is_initialized /\ Strip(user_message) # ""
        /\ HandleMessageSubmit) =>
        /\ chat_sessions'[current_chat_id].submitted_message = user_message
        /\ \A id \in DOMAIN chat_sessions \ {current_chat_id} :
               chat_sessions'[id] = chat_sessions[id]
C12_Rejects ==
    (HasCurrent /\ current_session.is_initialized /\ Strip(user_message) = ""
        /\ HandleMessageSubmit) =>
        UNCHANGED <<stateVars, registryVars, tasks, uuid_next, submits>>
C12_SubmitRouting ==
    [][C12_Starts /\ C12_Opens /\ C12_Submits /\ C12_Rejects]_vars

\* C13: when a run fails, a system Message describing the error is appended to
\* the message list of the session the run belongs to, is_processing is
\* cleared, and start_chat ends without raising.
C13_Step ==
    \A r \in Runs :
        (tasks[r].pc = "except" /\ Except(r)) =>
            /\ tasks'[r].result = "failed"
            /\ ~is_processing'
            /\ tasks[r].sid \in DOMAIN chat_sessions =>
                   chat_sessions'[tasks[r].sid].messages =
                       Append(chat_sessions[tasks[r].sid].messages, ErrorMessage)
C13_FailureReported == [][C13_Step]_vars

\* C14: a run cancelled through the registry before its stream has ended saves
\* no team state, appends no error message, and still clears is_processing.
Cancelled(r) == tasks[r].result = "cancelled"
CancelledSavedNothing ==
    \A r \in Runs :
        Cancelled(r) => \A id \in DOMAIN chat_sessions : chat_sessions[id].team_state # r
C14_Step ==
    \A r \in Runs :
        /\ (~Cancelled(r) /\ Cancelled(r)') =>
               /\ tasks'[r].pc = "finally"
               /\ UNCHANGED <<stateVars, registryVars>>
        /\ (Cancelled(r) /\ tasks[r].pc = "finally" /\ Finally(r)) =>
               /\ tasks'[r].pc = "done"
               /\ ~is_processing'
               /\ UNCHANGED <<chat_sessions, key_order, current_chat_id>>
        /\ (Cancelled(r) /\ tasks[r].pc = "done") => tasks'[r] = tasks[r]
C14_CancelledRunUnwinds == [](CancelledSavedNothing) /\ [][C14_Step]_vars
C14_Witness ==
    \E r \in Runs :
        /\ Cancelled(r) /\ tasks[r].pc = "done"
        /\ token_cancelled[r]
        /\ ~is_processing
        /\ tasks[r].sid \in DOMAIN chat_sessions
        /\ chat_sessions[tasks[r].sid].team_state = NoRun
        /\ chat_sessions[tasks[r].sid].messages # <<>>
        /\ \A id \in DOMAIN chat_sessions :
               \A i \in 1..Len(chat_sessions[id].messages) :
                   chat_sessions[id].messages[i] # ErrorMessage

\* C15: storing a second handle under an id replaces the first: get returns the
\* second, cancel_session / terminate_session signal the second and not the
\* first, and the entries of the other ids stay as they were.
Others(f, id) == [x \in DOMAIN f \ {id} |-> f[x]]
C15_StoreLastWriteWins ==
    \A id \in Ids, t1 \in Runs, t2 \in Runs :
        LET ct2 == store_cancellation_token(
                       store_cancellation_token(Registry, id, t1), id, t2)
            tc2 == store_termination_condition(
                       store_termination_condition(Registry, id, t1), id, t2)
        IN /\ get_cancellation_token(ct2, id) = t2
           /\ Others(ct2.ct, id) = Others(cancellation_tokens, id)
           /\ ct2.tok = token_cancelled
           /\ cancel_session(ct2, id).tok = [token_cancelled EXCEPT ![t2] = TRUE]
           /\ cancel_session(ct2, id).ct = ct2.ct
           /\ get_termination_condition(tc2, id) = t2
           /\ Others(tc2.tc, id) = Others(termination_conditions, id)
           /\ tc2.trm = termination_set
           /\ terminate_session(tc2, id).trm = [termination_set EXCEPT ![t2] = TRUE]
           /\ terminate_session(tc2, id).tc = tc2.tc
\* cancel_session has signalled the token stored under an id; the other token
\* object, which no id holds any more, is not cancelled.
C15_Witness ==
    \E id \in Ids, t1 \in Runs, t2 \in Runs :
        /\ t1 # t2
        /\ last_ops = <<Op("cancel_session", id, t2, "True")>>
        /\ id \in DOMAIN cancellation_tokens /\ cancellation_tokens[id] = t2
        /\ token_cancelled[t2]
        /\ ~HeldBy(cancellation_tokens, t1) /\ ~token_cancelled[t1]
        /\ id \in DOMAIN termination_conditions /\ ~termination_set[t2]

\* C16: removing a handle twice gives the registry that removing it once
\* gives, an unknown id raises nothing, and after the removal get finds no
\* handle and cancel_session / terminate_session signal nothing.
SameRegistry(a, b) == a.ct = b.ct /\ a.tc = b.tc /\ a.tok = b.tok /\ a.trm = b.trm
Returned(tm, ret) == tm.log # <<>> /\ tm.log[Len(tm.log)].ret = ret
C16_RemoveIdempotent ==
    \A id \in Ids :
        LET c1 == remove_cancellation_token(Registry, id)
            c2 == remove_cancellation_token(c1, id)
            t1 == remove_termination_condition(Registry, id)
            t2 == remove_termination_condition(t1, id)
        IN /\ SameRegistry(c2, c1) /\ Returned(c1, "None") /\ Returned(c2, "None")
           /\ c1.ct = Others(cancellation_tokens, id)
           /\ c1.tc = termination_conditions
           /\ c1.tok = token_cancelled /\ c1.trm = termination_set
           /\ get_cancellation_token(c1, id) = NoRun
           /\ SameRegistry(cancel_session(c1, id), c1)
           /\ Returned(cancel_session(c1, id), "False")
           /\ SameRegistry(t2, t1) /\ Returned(t1, "None") /\ Returned(t2, "None")
           /\ t1.tc = Others(termination_conditions, id)
           /\ t1.ct = cancellation_tokens
           /\ t1.tok = token_cancelled /\ t1.trm = termination_set
           /\ get_termination_condition(t1, id) = NoRun
           /\ SameRegistry(terminate_session(t1, id), t1)
           /\ Returned(terminate_session(t1, id), "False")
\* A token was removed under an id that keeps its termination condition, while
\* another id holds an uncancelled token.
C16_Witness ==
    \E id \in Ids, other \in Ids :
        /\ last_ops = <<Op("remove_cancellation_token", id, NoRun, "None")>>
        /\ id \notin DOMAIN cancellation_tokens
        /\ id \in DOMAIN termination_conditions
        /\ other \in DOMAIN cancellation_tokens
        /\ ~token_cancelled[cancellation_tokens[other]]
        /\ \E t \in Runs : ~HeldBy(cancellation_tokens, t) /\ ~token_cancelled[t]

\* C17: create_chat adds exactly one session, with a fresh id, no messages, not
\* initialized, an empty mailbox and the typed title (or "Untitled") as name,
\* makes it current and leaves the sessions that existed as they were.
C17_Step ==
    CreateChat =>
        LET added == DOMAIN chat_sessions' \ DOMAIN chat_sessions
        IN /\ Cardinality(added) = 1
           /\ DOMAIN chat_sessions \subseteq DOMAIN chat_sessions'
           /\ \A id \in added :
                  /\ id \notin 1..(uuid_next - 1)
                  /\ chat_sessions'[id].id = id
                  /\ chat_sessions'[id].name =
                         (IF new_chat_name = "" THEN "Untitled" ELSE new_chat_name)
                  /\ chat_sessions'[id].messages = <<>>
                  /\ ~chat_sessions'[id].is_initialized
                  /\ chat_sessions'[id].submitted_message = ""
                  /\ current_chat_id' = id
           /\ \A id \in DOMAIN chat_sessions : chat_sessions'[id] = chat_sessions[id]
C17_CreateAddsOne == [][C17_Step]_vars
C17_Witness ==
    \E id \in Ids, old \in Ids :
        /\ id = uuid_next - 1 /\ current_chat_id = id /\ old # id
        /\ id \in DOMAIN chat_sessions /\ old \in DOMAIN chat_sessions
        /\ chat_sessions[id] = ChatSession(id, "T")
        /\ new_chat_name = ""
        /\ chat_sessions[old].name = "New Chat"

\* C18: the message list of a session is append-only: whatever step is taken,
\* the list a session had is a prefix of the list it has afterwards.
IsPrefix(a, b) == Len(a) <= Len(b) /\ SubSeq(b, 1, Len(a)) = a
C18_Step ==
    \A id \in DOMAIN chat_sessions \cap DOMAIN chat_sessions' :
        IsPrefix(chat_sessions[id].messages, chat_sessions'[id].messages)
C18_MessagesAppendOnly == [][C18_Step]_vars
C18_Witness ==
    \E id \in DOMAIN chat_sessions, other \in DOMAIN chat_sessions :
        /\ other # id
        /\ Len(chat_sessions[id].messages) = 2
        /\ chat_sessions[id].messages[1] \in RelayItems
        /\ chat_sessions[id].messages[2] = ErrorMessage

\* C19: can_send_message is true exactly when a non-empty message is typed and
\* is_processing is false; so it is true on a fresh session once a topic is
\* typed.
C19_CanSendWhenTypedAndIdle ==
    (can_send_message = "True") <=> (user_message # "" /\ ~is_processing)

\* C20: a Message appended by a run (a relayed stream item or the failure
\* message) goes to the session the run was started for and to no other, also
\* when the current session has changed meanwhile.
Appends(r) ==
    \/ tasks[r].pc = "streaming" /\ StreamRelay(r)
    \/ tasks[r].pc = "except" /\ Except(r)
C20_Step ==
    \A r \in Runs :
        Appends(r) =>
            \A id \in DOMAIN chat_sessions \ {tasks[r].sid} :
                chat_sessions'[id].messages = chat_sessions[id].messages
C20_RunWritesOwnSession == [][C20_Step]_vars

\* C21: the input callback of a run started for session S reads only the
\* mailbox of S: a text submitted while another session is current is never
\* taken by the run of S.
C21_Step ==
    \A r \in Runs :
        (tasks[r].pc = "awaiting" /\ tasks'[r].pc = "clear_mailbox") =>
            /\ tasks[r].sid \in DOMAIN chat_sessions
            /\ current_chat_id = tasks[r].sid
            /\ tasks'[r].message = chat_sessions[tasks[r].sid].submitted_message
C21_CallbackReadsOwnMailbox == [][C21_Step]_vars

\* C22: consuming the mailbox is atomic with respect to submit_message: the
\* callback's clear step never discards a text it did not return, that is, the
\* text it clears from the mailbox of its own session is the text it read.
C22_Step ==
    \A r \in Runs :
        ( /\ tasks[r].pc = "clear_mailbox"
          /\ tasks'[r].pc = "set_processing"
          /\ current_chat_id = tasks[r].sid
          /\ Truthy(chat_sessions[current_chat_id].submitted_message) ) =>
            chat_sessions[current_chat_id].submitted_message = tasks[r].message
C22_ClearDiscardsNothing == [][C22_Step]_vars

\* C23: sessions stay re-enterable: under fair scheduling every text that
\* submit_message left in the mailbox of a session is eventually taken out of
\* it by an input callback, unless the session is deleted; this holds also when
\* the session's earlier run has already ended.
Pending(id) ==
    id \in DOMAIN chat_sessions /\ Truthy(chat_sessions[id].submitted_message)
C23_SubmittedEventuallyConsumed ==
    \A id \in Ids : Pending(id) ~> ~Pending(id)

\* C24: once termination has been signalled through the registry for the
\* session of a run whose input callback is polling, the callback stops
\* polling (it raises at its next poll), also when that session is no longer
\* the current one.
TerminationSignalled(r) ==
    /\ tasks[r].pc = "awaiting"
    /\ termination_set[r]
    /\ \E i \in 1..Len(last_ops) :
           /\ last_ops[i].op = "terminate_session"
           /\ last_ops[i].id = tasks[r].sid
           /\ last_ops[i].ret = "True"
C24_TerminatedCallbackStopsPolling ==
    \A r \in Runs : TerminationSignalled(r) ~> (tasks[r].pc # "awaiting")

\* C25: both handles of a run are registered under the id of the session the
\* run was started for: the termination condition stored by get_team and the
\* cancellation token stored before run_stream go under that one id.
RegisteredUnder(registry, id, obj) == id \in DOMAIN registry /\ registry[id] = obj
C25_Step ==
    \A r \in Runs :
        /\ (tasks[r].pc = "get_team" /\ tasks'[r].pc = "load_config") =>
               RegisteredUnder(termination_conditions', tasks[r].sid, r)
        /\ (Building(r) /\ tasks'[r].pc = "streaming") =>
               RegisteredUnder(cancellation_tokens', tasks[r].sid, r)
C25_HandlesUnderOwnSession == [][C25_Step]_vars

\* C26: every session id under which the registry holds a cancellation token
\* or a termination condition is the id of a session in chat_sessions; a run
\* still starting when its session is deleted registers no handle for it.
C26_RegistryIdsAreSessions ==
    /\ DOMAIN cancellation_tokens \subseteq DOMAIN chat_sessions
    /\ DOMAIN termination_conditions \subseteq DOMAIN chat_sessions
\* A run whose session was deleted while it was starting has just stored its
\* termination condition.
C26_Witness ==
    \E r \in Runs :
        /\ tasks[r].pc = "load_config"
        /\ tasks[r].sid \notin DOMAIN chat_sessions
        /\ last_ops # <<>>
        /\ last_ops[1].op = "store_termination_condition"
        /\ last_ops[1].obj = r

\* C27: for each item of the stream: a TaskResult appends nothing and changes
\* no flag; a UserInputRequestedEvent sets is_processing to false and appends
\* nothing; any other item appends exactly one Message with the item's source
\* and content; when the callback returns a consumed text is_processing
\* becomes true.
ItemAppended ==
    /\ HasCurrent
    /\ \E item \in RelayItems :
           chat_sessions' = [chat_sessions EXCEPT ![current_chat_id].messages =
                                 Append(@, Message(item.source, item.content))]
ItemsOtherThanRelayed(r) ==
    /\ (tasks[r].pc = "streaming" /\ tasks'[r].pc = "save_state") =>
           UNCHANGED <<chat_sessions, is_processing>>
    /\ (tasks[r].pc = "streaming" /\ tasks'[r].pc = "awaiting") =>
           ~is_processing' /\ UNCHANGED chat_sessions
    /\ (tasks[r].pc = "set_processing" /\ tasks'[r].pc = "streaming") =>
           is_processing'
C27_Original ==
    \A r \in Runs :
        /\ ItemsOtherThanRelayed(r)
        /\ StreamRelay(r) => ItemAppended
C27_Step ==
    \A r \in Runs :
        /\ ItemsOtherThanRelayed(r)
        /\ StreamRelay(r) => IF HasCurrent THEN ItemAppended
                                           ELSE UNCHANGED chat_sessions
StateSaved(r) ==
    /\ tasks[r].pc = "save_state"
    /\ HasCurrent
    /\ current_session.team_state # r
    /\ tasks'[r].pc # "save_state"
    /\ current_chat_id \in DOMAIN chat_sessions'
    /\ chat_sessions'[current_chat_id].team_state = r
C28_Step ==
    \A r \in Runs :
        /\ StateSaved(r) => tasks'[r].pc = "store_state"
        /\ (tasks[r].pc = "store_state" /\ tasks'[r].pc # "store_state") =>
               /\ tasks'[r].result = "completed"
               /\ current_chat_id \in DOMAIN chat_sessions'
               /\ chat_sessions'[current_chat_id].team_state = r
               /\ ~HeldBy(termination_conditions', r)
               /\ MsgCount' = MsgCount
C28_NormalCompletion == [][C28_Step]_vars

\* C29: delete_chat(id) of an existing session that is not current leaves
\* current_chat_id, the fields of every other session and the registry handles
\* of every other session as they were, and signals no termination or
\* cancellation to a run of another session.
DeletedOther(id) ==
    /\ id \in DOMAIN chat_sessions
    /\ id # current_chat_id
    /\ Handled("delete_chat", id, "done")'
OthersKept(id) ==
    /\ current_chat_id' = current_chat_id
    /\ \A other \in DOMAIN chat_sessions \ {id} :
           /\ other \in DOMAIN chat_sessions'
           /\ chat_sessions'[other] = chat_sessions[other]
    /\ \A other \in DOMAIN cancellation_tokens \ {id} :
           /\ other \in DOMAIN cancellation_tokens'
           /\ cancellation_tokens'[other] = cancellation_tokens[other]
    /\ \A other \in DOMAIN termination_conditions \ {id} :
           /\ other \in DOMAIN termination_conditions'
           /\ termination_conditions'[other] = termination_conditions[other]
OtherRunsNotSignalled(id) ==
    \A r \in Runs :
        tasks[r].sid # id =>
            /\ termination_set'[r] = termination_set[r]
            /\ token_cancelled'[r] = token_cancelled[r]
C29_Step ==
    \A id \in Ids : DeletedOther(id) => OthersKept(id) /\ OtherRunsNotSignalled(id)
C29_DeleteOtherFrame == [][C29_Step]_vars

\* C30: the ConversationManager mailbox is consume-once.  A wait_for_input
\* call that returns a text returns the text pending for its conversation,
\* which no call has returned before, and leaves pending_input None; a call
\* that begins while a text is pending returns it at once, a woken call
\* returns what is pending when it resumes; set_pending_input overwrites a
\* text not yet consumed.
PendingInput(id) == conv_data[conversations[id]].pending_input
PendingInputAfter(id) == conv_data'[conversations'[id]].pending_input
Finishing(w) == waiters[w].pc # "done" /\ waiters'[w].pc = "done"
C30_Step ==
    /\ \A w \in Waiters :
           LET id == waiters'[w].cid
               text == waiters'[w].ret
           IN /\ (Finishing(w) /\ text # NoInput) =>
                     /\ Registered(id)
                     /\ PendingInput(id) = text
                     /\ text \notin returned
                     /\ PendingInputAfter(id) = NoInput
              /\ (waiters[w].pc = "idle" /\ waiters'[w].pc # "idle" /\ Registered(id)
                      /\ PendingInput(id) # NoInput) =>
                     Finishing(w) /\ text = PendingInput(id)
              /\ (waiters[w].pc = "woken" /\ Finishing(w) /\ Registered(id)) =>
                     text = PendingInput(id)
    /\ \A id \in ConvIds :
           (Registered(id) /\ inputs_next' # inputs_next
                /\ conv_data'[conversations[id]] # conv_data[conversations[id]]) =>
               PendingInputAfter(id) = inputs_next
C30_ConsumeOnce == [][C30_Step]_vars
\* One call has returned a text, and a blocked call has been woken by a later
\* text that is still pending.
C30_Witness ==
    \E w \in Waiters, v \in Waiters :
        /\ waiters[v].pc = "done" /\ waiters[v].ret # NoInput
        /\ waiters[w].pc = "woken"
        /\ Registered(waiters[w].cid)
        /\ PendingInput(waiters[w].cid) \notin returned \cup {NoInput}

\* C31: a text accepted by set_pending_input is never left pending while a
\* wait_for_input call for the same id stays blocked, also when the
\* conversation was registered anew while the call was blocked.
C31_NoTextPendingWhileBlocked ==
    \A w \in Waiters :
        (waiters[w].pc = "blocked" /\ Registered(waiters[w].cid)) =>
            PendingInput(waiters[w].cid) = NoInput

\* C32: cancel_conversation(id) on a registered conversation cancels the
\* cancel token of its entry when one is set and wakes the wait_for_input
\* calls blocked on that entry; the entry stays registered.  A woken call
\* returns None when no input is pending.
C32_Step ==
    /\ \A id \in ConvIds :
           (Registered(id) /\ CancelConversation(id)) =>
               LET obj == conversations[id]
               IN /\ conv_data[obj].cancel_token # NoRun =>
                         conv_data[obj].cancel_token \in cancelled_tokens'
                  /\ \A w \in Waiters :
                         (waiters[w].pc = "blocked" /\ waiters[w].obj = obj) =>
                             waiters'[w].pc = "woken"
                  /\ conversations' = conversations
    /\ \A w \in Waiters :
           (waiters[w].pc = "woken" /\ Finishing(w) /\ Registered(waiters[w].cid)
                /\ PendingInput(waiters[w].cid) = NoInput) =>
               waiters'[w].ret = NoInput
C32_CancelWakes == [][C32_Step]_vars
\* A blocked call was woken by cancel_conversation (no text was ever given),
\* the token of its conversation is cancelled and nothing is pending.
C32_Witness ==
    \E w \in Waiters :
        /\ waiters[w].pc = "woken"
        /\ inputs_next = 1
        /\ Registered(waiters[w].cid)
        /\ conversations[waiters[w].cid] = waiters[w].obj
        /\ conv_data[waiters[w].obj].cancel_token \in cancelled_tokens

LastActive(id) == conv_data[conversations[id]].last_active

Older(max_age) == {id \in DOMAIN conversations : LastActive(id) < now - max_age}

C33_Step ==
    \A max_age \in MaxAges :
        CleanupStaleConversations(max_age) =>
            /\ DOMAIN conversations' = DOMAIN conversations \ Older(max_age)
            /\ \A id \in Older(max_age) :
                   conv_data[conversations[id]].cancel_token # NoRun =>
                       conv_data[conversations[id]].cancel_token \in cancelled_tokens'
            /\ cancelled_tokens' \ cancelled_tokens \subseteq
                   {conv_data[conversations[id]].cancel_token : id \in Older(max_age)}
            /\ \A id \in DOMAIN conversations' :
                   /\ conversations'[id] = conversations[id]
                   /\ conv_data'[conversations'[id]] = conv_data[conversations[id]]
            /\ conv_call'.ret = "int"
            /\ conv_call'.val = Cardinality(Older(max_age))

\* C33: cleanup_stale_conversations(max_age) removes exactly the
\* conversations whose last_active is earlier than now minus max_age, cancels
\* the cancel token of each removed conversation that has one, leaves every
\* other conversation as it was, and returns the number it removed.
C33_CleanupRemovesExactlyStale == [][C33_Step]_vars

\* a cleanup has removed one conversation, whose token it cancelled, and has
\* kept another that was last active before now
C33_Witness ==
    /\ conv_call.op = "cleanup_stale_conversations"
    /\ conv_call.val = 1
    /\ cancelled_tokens # {}
    /\ \E id \in DOMAIN conversations : LastActive(id) < now

\* the call left the table of conversations, and every dict, as they were
NothingCreated == conversations' = conversations /\ conv_data' = conv_data

ReturnedFrom(op, id, ret) ==
    conv_call' = [op |-> op, id |-> id, ret |-> ret, val |-> 0]

C34_Step ==
    \A id \in ConvIds :
        /\ ~Registered(id) =>
              /\ CallSetPendingInput(id) =>
                     NothingCreated /\ ReturnedFrom("set_pending_input", id, "False")
              /\ CallCancelConversation(id) =>
                     /\ NothingCreated /\ cancelled_tokens' = cancelled_tokens
                     /\ ReturnedFrom("cancel_conversation", id, "False")
              /\ CallRemoveConversation(id) =>
                     NothingCreated /\ ReturnedFrom("remove_conversation", id, "False")
              /\ GetTeam(id) => NothingCreated /\ ReturnedFrom("get_team", id, "None")
              /\ GetCancelToken(id) =>
                     NothingCreated /\ ReturnedFrom("get_cancel_token", id, "None")
              /\ CallWaitForInput(id) =>
                     /\ NothingCreated
                     /\ waiters'[Caller].pc = "done"
                     /\ ReturnedFrom("wait_for_input", id, "None")
              /\ \A token \in CancelTokens :
                     CallSetTeam(id, token) =>
                         /\ NothingCreated /\ waiters' = waiters
                         /\ cancelled_tokens' = cancelled_tokens
                         /\ ReturnedFrom("set_team", id, "None")
        /\ (Registered(id) /\ CallRemoveConversation(id)) =>
              /\ ReturnedFrom("remove_conversation", id, "True")
              /\ id \notin DOMAIN conversations'

\* C34: the ConversationManager methods given an unregistered conversation id
\* create no entry and return the value of their "not found" path:
\* set_pending_input, cancel_conversation and remove_conversation return False;
\* get_team, get_cancel_token and wait_for_input return None, wait_for_input
\* without blocking; set_team changes nothing.  remove_conversation on a
\* registered id returns True and leaves the id unregistered, so that a
\* second remove_conversation returns False.
C34_UnregisteredIdIsHarmless == [][C34_Step]_vars

\* remove_conversation has just returned False for an id that is not
\* registered, after a conversation had been registered and removed
C34_Witness ==
    /\ conv_call.op = "remove_conversation"
    /\ conv_call.ret = "False"
    /\ conv_call.id \notin DOMAIN conversations
    /\ conv_data # <<>>
    /\ conversations = <<>>

================================================================
